---- MODULE Spec2Model ----
(***************************************************************************)
(* Chunked-recording session storage of backend/chunk_storage.py           *)
(* (class ChunkStorage) and the recording handlers of backend/app.py.      *)
(*                                                                         *)
(* The file system under CHUNKS_DIR is the state: which session            *)
(* directories exist, the metadata.json of each, and the chunk files of    *)
(* each, keyed by file name.  Spec runs the storage operations one after   *)
(* another (each operation is one step); SpecConc runs the calls of        *)
(* several workers with their file-system steps interleaved.               *)
(*                                                                         *)
(* Time is counted in whole hours: created_at is written with isoformat()  *)
(* and read back with fromisoformat(), which returns the datetime written, *)
(* so a timestamp is kept as the hour it was taken at.                     *)
(***************************************************************************)
EXTENDS Integers, Sequences, FiniteSets, TLC

\* ------------------------------------------------------------ bounds
MaxOps == 5          \* operations in one run
MaxTime == 1         \* hours the clock advances
MaxCalls == 3        \* calls started in one run of interleaved workers

\* ------------------------------------------------------------ program constants
PadWidth == 6        \* f"chunk_{chunk_index:06d}.webm"

Sessions == {"s1", "s2"}
MimeTypes == {"audio/webm"}
OutputTargets == {"out.webm"}
Payloads == {<<7>>, <<8, 9>>}

RECURSIVE Pow10(_)
Pow10(k) == IF k = 0 THEN 1 ELSE 10 * Pow10(k - 1)

PadCapacity == Pow10(PadWidth)

\* chunk indices uploaded: the first one, the last one that fits the padding
\* width and the first one that does not
Indices == {0, PadCapacity - 1, PadCapacity}

\* max_age_hours handed to cleanup_old_sessions
MaxAges == {0, 1}

VARIABLES
    dirs,      \* the session ids whose directory CHUNKS_DIR/<id> exists
    meta,      \* meta[s]: the file metadata.json of session s
    chunks,    \* chunks[s]: file name -> content, the chunk files of s
    outputs,   \* outputs[o]: the bytes written to output path o
    now,       \* datetime.now(), in hours
    last,      \* the last operation that ran, its arguments and its result
    nops,      \* operations run so far
    saves,     \* saves[s]: the accepted save_chunk calls since initialize
    stored,    \* stored[s]: index -> payload last accepted for that index
    fin,       \* fin[s]: what followed the last successful combine of s
    procs      \* procs[p]: the call worker p is in, and its locals

vars == <<dirs, meta, chunks, outputs, now, last, nops, saves, stored, fin, procs>>

\* ------------------------------------------------------------ files
NoFile == [exists |-> FALSE, content |-> <<>>]
\* open(path, 'w') has truncated the file and nothing is written yet
EmptyFile == [exists |-> TRUE, content |-> <<>>]
JsonFile(rec) == [exists |-> TRUE, content |-> <<rec>>]
NoFiles == [n \in {} |-> <<>>]

\* ------------------------------------------------------------ chunk file names
RECURSIVE Digits(_)
\* the decimal digits of n, most significant first, as character codes
Digits(n) == IF n < 10 THEN <<48 + n>> ELSE Digits(n \div 10) \o <<48 + (n % 10)>>

\* the digits without the zero padding of :06d
Unpadded(ds, w) == ds

RECURSIVE ZeroPad(_, _)
ZeroPad(ds, w) == IF Len(ds) >= w THEN ds ELSE ZeroPad(<<48>> \o ds, w)

\* "chunk_" and ".webm"
ChunkPrefix == <<99, 104, 117, 110, 107, 95>>
ChunkSuffix == <<46, 119, 101, 98, 109>>

ChunkName(i) == ChunkPrefix \o ZeroPad(Digits(i), PadWidth) \o ChunkSuffix

RECURSIVE LexLess(_, _)
\* a < b as Python compares two strings
LexLess(a, b) ==
    IF a = <<>> THEN b # <<>>
    ELSE IF b = <<>> THEN FALSE
    ELSE IF Head(a) # Head(b) THEN Head(a) < Head(b)
    ELSE LexLess(Tail(a), Tail(b))

RECURSIVE NamesDescending(_)
\* a listing that is not sorted ascending
NamesDescending(S) ==
    IF S = {} THEN <<>>
    ELSE LET m == CHOOSE x \in S : \A y \in S \ {x} : LexLess(y, x)
         IN <<m>> \o NamesDescending(S \ {m})

RECURSIVE SortedNames(_)
\* sorted(): the names of S in ascending order
SortedNames(S) ==
    IF S = {} THEN <<>>
    ELSE LET m == CHOOSE x \in S : \A y \in S \ {x} : LexLess(x, y)
         IN <<m>> \o SortedNames(S \ {m})

\* get_chunks: the chunk files of s in sorted order, [] without a directory
GetChunks(s) == IF s \notin dirs THEN <<>> ELSE SortedNames(DOMAIN chunks[s])

RECURSIVE ConcatFiles(_, _)
\* the bytes combine_chunks writes: each listed file's content, in list order
ConcatFiles(names, files) ==
    IF names = <<>> THEN <<>>
    ELSE files[Head(names)] \o ConcatFiles(Tail(names), files)

\* ------------------------------------------------------------ metadata records
\* a record that keeps the counters of the record it replaces
NewMetadataKeepingCounters(s, mime, t) ==
    [ session_id |-> s, mime_type |-> mime, created_at |-> t,
      chunks_received |-> IF meta[s].content # <<>> THEN meta[s].content[1].chunks_received ELSE 0,
      total_size |-> IF meta[s].content # <<>> THEN meta[s].content[1].total_size ELSE 0,
      finalized |-> FALSE,
      last_updated |-> <<>>, finalized_at |-> <<>>, output_file |-> <<>> ]

NewMetadata(s, mime, t) ==
    [ session_id |-> s, mime_type |-> mime, created_at |-> t,
      chunks_received |-> 0, total_size |-> 0, finalized |-> FALSE,
      last_updated |-> <<>>, finalized_at |-> <<>>, output_file |-> <<>> ]

\* a save that writes the record back without its finalized flag
SavedMetadataUnfinalized(m, i, data, t) ==
    [m EXCEPT !.chunks_received = i + 1,
              !.total_size = m.total_size + Len(data),
              !.last_updated = <<t>>,
              !.finalized = FALSE]

\* a save that counts the calls instead of taking the index
SavedMetadataCounting(m, i, data, t) ==
    [m EXCEPT !.chunks_received = m.chunks_received + 1,
              !.total_size = m.total_size + Len(data),
              !.last_updated = <<t>>]

SavedMetadata(m, i, data, t) ==
    [m EXCEPT !.chunks_received = i + 1,
              !.total_size = m.total_size + Len(data),
              !.last_updated = <<t>>]

\* a combine that also stamps created_at
FinalizedMetadataRestamped(m, o, t) ==
    [m EXCEPT !.finalized = TRUE, !.finalized_at = <<t>>, !.output_file = <<o>>,
              !.created_at = t]

FinalizedMetadata(m, o, t) ==
    [m EXCEPT !.finalized = TRUE, !.finalized_at = <<t>>, !.output_file = <<o>>]

\* the age test alone, without the test of finalized
IsStaleIgnoringFinalized(m, t, maxAge) == (t - m.created_at) > maxAge
\* the test with >= for >
IsStaleAtThreshold(m, t, maxAge) == (t - m.created_at) >= maxAge /\ ~m.finalized

\* cleanup_old_sessions' test on one metadata record
IsStale(m, t, maxAge) == (t - m.created_at) > maxAge /\ ~m.finalized

\* ------------------------------------------------------------ results
Ok(op, s, arg, res) == [op |-> op, sid |-> s, arg |-> arg, err |-> "", res |-> res]
Failed(op, s, e) == [op |-> op, sid |-> s, arg |-> <<>>, err |-> e, res |-> <<>>]

\* the three ValueError messages of chunk_storage.py
ErrNotInitialized == "not initialized"
ErrDoesNotExist == "does not exist"
ErrNoChunks == "No chunks found"
\* json.load on a file that holds no complete record
ErrJson == "JSONDecodeError"
\* open() or rmtree() on a path that is gone
ErrFileNotFound == "FileNotFoundError"

\* ------------------------------------------------------------ history
Untouched == "none"     \* no successful combine since the last cleanup
Kept == "kept"          \* combined; no initialize or cleanup since
Reinit == "reinit"      \* combined, then initialized again

\* saves[s]: the indices accepted since initialize, whether one was accepted
\* twice, the sum of the accepted payload sizes, and whether a call of another
\* kind overlapped a save_chunk; replaced: the indices whose stored payload an
\* accepted call replaced by a different one
NoSaves == [idxs |-> {}, dup |-> FALSE, sum |-> 0, mixed |-> FALSE, replaced |-> {}]
Accepted(sv, i, data, prev) ==
    [sv EXCEPT !.idxs = @ \cup {i}, !.dup = @ \/ i \in sv.idxs, !.sum = @ + Len(data),
               !.replaced = IF prev # <<>> /\ prev # <<data>> THEN @ \cup {i} ELSE @]

Init ==
    /\ dirs = {}
    /\ meta = [s \in Sessions |-> NoFile]
    /\ chunks = [s \in Sessions |-> NoFiles]
    /\ outputs = [o \in OutputTargets |-> NoFile]
    /\ now = 0
    /\ last = Ok("start", "", <<>>, <<>>)
    /\ nops = 0
    /\ saves = [s \in Sessions |-> NoSaves]
    /\ stored = [s \in Sessions |-> NoFiles]
    /\ fin = [s \in Sessions |-> Untouched]
    /\ procs = <<>>

\* ------------------------------------------------------------ operations
\* initialize_session: mkdir(exist_ok=True), then write a fresh record
Initialize(s, mime) ==
    /\ nops < MaxOps
    /\ nops' = nops + 1
    /\ dirs' = dirs \cup {s}
    /\ meta' = [meta EXCEPT ![s] = JsonFile(NewMetadata(s, mime, now))]
    /\ last' = Ok("initialize", s, [existed |-> s \in dirs, mime |-> mime], <<>>)
    /\ saves' = [saves EXCEPT ![s] = NoSaves]
    /\ fin' = [fin EXCEPT ![s] = IF fin[s] = Untouched THEN Untouched ELSE Reinit]
    /\ UNCHANGED <<chunks, outputs, now, stored, procs>>

\* get_metadata applied to the file f
ReadMetadata(f) ==
    IF ~f.exists THEN [err |-> ErrDoesNotExist, rec |-> <<>>]
    ELSE IF f.content = <<>> THEN [err |-> ErrJson, rec |-> <<>>]
    ELSE [err |-> "", rec |-> f.content[1]]

\* a write that leaves no other chunk file in the directory
WriteChunkAlone(files, i, data) == (ChunkName(i) :> data)

\* a write that keeps the file when it exists
WriteChunkOnce(files, i, data) == files @@ (ChunkName(i) :> data)

WriteChunk(files, i, data) == (ChunkName(i) :> data) @@ files

\* save_chunk
SaveChunk(s, i, data) ==
    /\ nops < MaxOps
    /\ nops' = nops + 1
    /\ LET arg == [index |-> i, data |-> data,
                   prev |-> IF i \in DOMAIN stored[s] THEN <<stored[s][i]>> ELSE <<>>]
           rd == ReadMetadata(meta[s])
           m == SavedMetadata(rd.rec, i, data, now)
       IN IF s \notin dirs
          THEN /\ last' = Failed("save", s, ErrNotInitialized)
               /\ UNCHANGED <<meta, chunks, saves, stored>>
          ELSE /\ chunks' = [chunks EXCEPT ![s] = WriteChunk(chunks[s], i, data)]
               /\ stored' = [stored EXCEPT ![s] = (i :> data) @@ stored[s]]
               /\ IF rd.err # ""
                  THEN /\ last' = Failed("save", s, rd.err)
                       /\ UNCHANGED <<meta, saves>>
                  ELSE /\ meta' = [meta EXCEPT ![s] = JsonFile(m)]
                       /\ saves' = [saves EXCEPT ![s] = Accepted(@, i, data, arg.prev)]
                       /\ last' = Ok("save", s, arg,
                               [chunk_index |-> i, size |-> Len(data),
                                total_chunks |-> m.chunks_received,
                                total_size |-> m.total_size])
    /\ UNCHANGED <<dirs, outputs, now, fin, procs>>

\* recording_status: what the handler answers for session s
StatusOf(s) ==
    LET rd == ReadMetadata(meta[s])
    IN IF rd.err # "" THEN Failed("status", s, rd.err)
       ELSE Ok("status", s, <<>>,
               [chunks_received |-> rd.rec.chunks_received,
                total_size |-> rd.rec.total_size,
                created_at |-> rd.rec.created_at,
                finalized |-> rd.rec.finalized])

GetStatus(s) ==
    /\ nops < MaxOps
    /\ nops' = nops + 1
    /\ last' = StatusOf(s)
    /\ UNCHANGED <<dirs, meta, chunks, outputs, now, saves, stored, fin, procs>>

RECURSIVE SumLens(_, _)
\* combine_chunks' running total_size
SumLens(names, files) ==
    IF names = <<>> THEN 0
    ELSE Len(files[Head(names)]) + SumLens(Tail(names), files)

\* combine_chunks without its test for an empty listing
CombineUnchecked(s, o) ==
    /\ nops < MaxOps
    /\ nops' = nops + 1
    /\ LET names == GetChunks(s)
           rd == ReadMetadata(meta[s])
       IN /\ outputs' = [outputs EXCEPT ![o] =
                 [exists |-> TRUE, content |-> ConcatFiles(names, chunks[s])]]
          /\ IF rd.err # ""
             THEN /\ last' = Failed("combine", s, rd.err)
                  /\ UNCHANGED <<meta, fin>>
             ELSE /\ meta' = [meta EXCEPT ![s] =
                          JsonFile(FinalizedMetadata(rd.rec, o, now))]
                  /\ fin' = [fin EXCEPT ![s] = Kept]
                  /\ last' = Ok("combine", s, o,
                          [chunks_combined |-> Len(names),
                           total_size |-> SumLens(names, chunks[s]),
                           output_file |-> o, session_id |-> s])
    /\ UNCHANGED <<dirs, chunks, now, saves, stored, procs>>

\* combine_chunks
Combine(s, o) ==
    /\ nops < MaxOps
    /\ nops' = nops + 1
    /\ LET names == GetChunks(s)
           rd == ReadMetadata(meta[s])
       IN IF names = <<>>
          THEN /\ last' = Failed("combine", s, ErrNoChunks)
               /\ UNCHANGED <<meta, outputs, fin>>
          ELSE /\ outputs' = [outputs EXCEPT ![o] =
                       [exists |-> TRUE, content |-> ConcatFiles(names, chunks[s])]]
               /\ IF rd.err # ""
                  THEN /\ last' = Failed("combine", s, rd.err)
                       /\ UNCHANGED <<meta, fin>>
                  ELSE /\ meta' = [meta EXCEPT ![s] =
                               JsonFile(FinalizedMetadata(rd.rec, o, now))]
                       /\ fin' = [fin EXCEPT ![s] = Kept]
                       /\ last' = Ok("combine", s, o,
                               [chunks_combined |-> Len(names),
                                total_size |-> SumLens(names, chunks[s]),
                                output_file |-> o, session_id |-> s])
    /\ UNCHANGED <<dirs, chunks, now, saves, stored, procs>>

\* shutil.rmtree of the directories of R
RemoveDirs(R) ==
    /\ dirs' = dirs \ R
    /\ meta' = [s \in Sessions |-> IF s \in R THEN NoFile ELSE meta[s]]
    /\ chunks' = [s \in Sessions |-> IF s \in R THEN NoFiles ELSE chunks[s]]
    /\ stored' = [s \in Sessions |-> IF s \in R THEN NoFiles ELSE stored[s]]
    /\ saves' = [s \in Sessions |-> IF s \in R THEN NoSaves ELSE saves[s]]

\* a cleanup that spares a session that is not finalized
CleanupFinalizedOnly(s) ==
    IF s \in dirs /\ meta[s].content # <<>> /\ meta[s].content[1].finalized THEN {s} ELSE {}

\* the sessions cleanup() removes: its own directory, when it exists
CleanupTargets(s) == IF s \in dirs THEN {s} ELSE {}

\* cleanup
Cleanup(s) ==
    /\ nops < MaxOps
    /\ nops' = nops + 1
    /\ RemoveDirs(CleanupTargets(s))
    /\ fin' = [fin EXCEPT ![s] = Untouched]
    /\ last' = Ok("cleanup", s,
                   [existed |-> s \in dirs,
                    again |-> last.op = "cleanup" /\ last.sid = s /\ last.arg.existed],
                   <<>>)
    /\ UNCHANGED <<outputs, now, procs>>

\* the sessions cleanup_old_sessions(maxAge) removes at time t
StaleSessions(t, maxAge) ==
    {s \in dirs : /\ meta[s].exists
                  /\ meta[s].content # <<>>
                  /\ IsStale(meta[s].content[1], t, maxAge)}

\* the session directories whose metadata.json json.load cannot read
Unreadable == {s \in dirs : meta[s].exists /\ meta[s].content = <<>>}

\* cleanup_old_sessions: when a metadata.json cannot be read the call raises
\* after removing the stale sessions that iterdir() listed before it
ReclaimStale(maxAge) ==
    /\ nops < MaxOps
    /\ nops' = nops + 1
    /\ \E R \in SUBSET StaleSessions(now, maxAge) :
          /\ Unreadable = {} => R = StaleSessions(now, maxAge)
          /\ RemoveDirs(R)
          /\ last' = IF Unreadable = {}
                     THEN Ok("reclaim", "", maxAge, [cleaned |-> Cardinality(R)])
                     ELSE Failed("reclaim", "", ErrJson)
    /\ UNCHANGED <<outputs, now, fin, procs>>

\* time passes
Tick ==
    /\ now < MaxTime
    /\ now' = now + 1
    /\ last' = Ok("tick", "", <<>>, <<>>)
    /\ UNCHANGED <<dirs, meta, chunks, outputs, nops, saves, stored, fin, procs>>

Next ==
    \/ \E s \in Sessions, mime \in MimeTypes : Initialize(s, mime)
    \/ \E s \in Sessions, i \in Indices, data \in Payloads : SaveChunk(s, i, data)
    \/ \E s \in Sessions : GetStatus(s)
    \/ \E s \in Sessions, o \in OutputTargets : Combine(s, o)
    \/ \E s \in Sessions : Cleanup(s)
    \/ \E maxAge \in MaxAges : ReclaimStale(maxAge)
    \/ Tick

Spec == Init /\ [][Next]_vars

\* ------------------------------------------------------------ interleaved workers
\* Several server processes share CHUNKS_DIR: each worker runs one call at a
\* time and the file-system steps of different workers interleave.
Workers == {"w1", "w2"}
ConcSessions == {"s1"}
ConcIndices == {0, PadCapacity - 1}

\* a worker's locals: the call's arguments, the record it holds, whether its
\* save_chunk has created a chunk file, and combine_chunks' listing, output
\* path, chunk count and running total
Idle == [pc |-> "idle", sid |-> "", index |-> 0, data |-> <<>>, rec |-> <<>>,
         wrote |-> FALSE, names |-> <<>>, out |-> "", count |-> 0, total |-> 0]

SavePcs == {"save_open_chunk", "save_write_chunk", "save_meta_exists",
            "save_read_meta", "save_open_meta", "save_write_meta"}
CombinePcs == {"combine_open_out", "combine_copy", "combine_meta_exists",
               "combine_read_meta", "combine_open_meta", "combine_write_meta"}

\* a save_chunk call of worker w has failed with e
FailedSave(w, s, e) ==
    [op |-> "save", sid |-> s, arg |-> [wrote |-> procs[w].wrote], err |-> e, res |-> <<>>]

InFlight(s) == {w \in Workers : procs[w].pc # "idle" /\ procs[w].sid = s}

InitConc ==
    /\ dirs = {}
    /\ meta = [s \in Sessions |-> NoFile]
    /\ chunks = [s \in Sessions |-> NoFiles]
    /\ outputs = [o \in OutputTargets |-> NoFile]
    /\ now = 0
    /\ last = Ok("start", "", <<>>, <<>>)
    /\ nops = 0
    /\ saves = [s \in Sessions |-> NoSaves]
    /\ stored = [s \in Sessions |-> NoFiles]
    /\ fin = [s \in Sessions |-> Untouched]
    /\ procs = [w \in Workers |-> Idle]

Returns(w, result) ==
    /\ procs' = [procs EXCEPT ![w] = Idle]
    /\ last' = result

Goes(w, pc) == procs' = [procs EXCEPT ![w].pc = pc]

\* initialize_session, line 29: mkdir(exist_ok=True); the record is built
CallInitialize(w, s, mime) ==
    /\ procs[w].pc = "idle"
    /\ nops < MaxCalls
    /\ nops' = nops + 1
    /\ dirs' = dirs \cup {s}
    /\ procs' = [procs EXCEPT ![w] =
           [Idle EXCEPT !.pc = "init_open", !.sid = s,
                        !.rec = <<NewMetadata(s, mime, now)>>]]
    /\ saves' = [saves EXCEPT ![s].mixed = @ \/ InFlight(s) # {}]
    /\ UNCHANGED <<meta, chunks, outputs, now, last, stored, fin>>

\* line 40: open(metadata_file, 'w')
InitOpen(w) ==
    /\ procs[w].pc = "init_open"
    /\ LET s == procs[w].sid
       IN IF s \notin dirs
          THEN /\ Returns(w, Failed("initialize", s, ErrFileNotFound))
               /\ UNCHANGED meta
          ELSE /\ meta' = [meta EXCEPT ![s] = EmptyFile]
               /\ Goes(w, "init_write")
               /\ UNCHANGED last
    /\ UNCHANGED <<dirs, chunks, outputs, now, nops, saves, stored, fin>>

\* line 41: json.dump and close
InitWrite(w) ==
    /\ procs[w].pc = "init_write"
    /\ LET s == procs[w].sid
       IN /\ meta' = [meta EXCEPT ![s] = JsonFile(procs[w].rec[1])]
          /\ saves' = [saves EXCEPT ![s] =
                 [NoSaves EXCEPT !.mixed = InFlight(s) \ {w} # {}]]
          /\ fin' = [fin EXCEPT ![s] = IF fin[s] = Untouched THEN Untouched ELSE Reinit]
          /\ Returns(w, Ok("initialize", s, <<>>, <<>>))
    /\ UNCHANGED <<dirs, chunks, outputs, now, nops, stored>>

\* save_chunk, line 47: session_dir.exists()
CallSave(w, s, i, data) ==
    /\ procs[w].pc = "idle"
    /\ nops < MaxCalls
    /\ nops' = nops + 1
    /\ IF s \notin dirs
       THEN /\ Returns(w, FailedSave(w, s, ErrNotInitialized))
            /\ UNCHANGED saves
       ELSE /\ procs' = [procs EXCEPT ![w] =
                   [Idle EXCEPT !.pc = "save_open_chunk", !.sid = s, !.index = i,
                                !.data = data]]
            /\ saves' = [saves EXCEPT ![s].mixed =
                   @ \/ \E v \in InFlight(s) : procs[v].pc \notin SavePcs]
            /\ UNCHANGED last
    /\ UNCHANGED <<dirs, meta, chunks, outputs, now, stored, fin>>

\* line 53: open(chunk_file, 'wb')
SaveOpenChunk(w) ==
    /\ procs[w].pc = "save_open_chunk"
    /\ LET s == procs[w].sid
       IN IF s \notin dirs
          THEN /\ Returns(w, FailedSave(w, s, ErrFileNotFound))
               /\ UNCHANGED chunks
          ELSE /\ chunks' = [chunks EXCEPT ![s] = WriteChunk(chunks[s], procs[w].index, <<>>)]
               /\ procs' = [procs EXCEPT ![w].pc = "save_write_chunk", ![w].wrote = TRUE]
               /\ UNCHANGED last
    /\ UNCHANGED <<dirs, meta, outputs, now, nops, saves, stored, fin>>

\* line 54: f.write(chunk_data) and close
SaveWriteChunk(w) ==
    /\ procs[w].pc = "save_write_chunk"
    /\ LET s == procs[w].sid
           i == procs[w].index
       IN /\ chunks' = [chunks EXCEPT ![s] =
                 IF s \in dirs THEN WriteChunk(chunks[s], i, procs[w].data) ELSE chunks[s]]
          /\ stored' = [stored EXCEPT ![s] =
                 IF s \in dirs THEN (i :> procs[w].data) @@ stored[s] ELSE stored[s]]
    /\ Goes(w, "save_meta_exists")
    /\ UNCHANGED <<dirs, meta, outputs, now, last, nops, saves, fin>>

\* get_metadata, line 76: metadata_file.exists()
SaveMetaExists(w) ==
    /\ procs[w].pc = "save_meta_exists"
    /\ IF ~meta[procs[w].sid].exists
       THEN Returns(w, FailedSave(w, procs[w].sid, ErrDoesNotExist))
       ELSE Goes(w, "save_read_meta") /\ UNCHANGED last
    /\ UNCHANGED <<dirs, meta, chunks, outputs, now, nops, saves, stored, fin>>

\* get_metadata, lines 79-80: open and json.load
SaveReadMeta(w) ==
    /\ procs[w].pc = "save_read_meta"
    /\ LET s == procs[w].sid
           rd == ReadMetadata(meta[s])
       IN IF rd.err = ErrDoesNotExist
          THEN Returns(w, FailedSave(w, s, ErrFileNotFound))
          ELSE IF rd.err # ""
          THEN Returns(w, FailedSave(w, s, rd.err))
          ELSE /\ procs' = [procs EXCEPT ![w].pc = "save_open_meta",
                                         ![w].rec = <<SavedMetadata(rd.rec, procs[w].index,
                                                                    procs[w].data, now)>>]
               /\ UNCHANGED last
    /\ UNCHANGED <<dirs, meta, chunks, outputs, now, nops, saves, stored, fin>>

\* line 62: open(metadata_file, 'w')
SaveOpenMeta(w) ==
    /\ procs[w].pc = "save_open_meta"
    /\ LET s == procs[w].sid
       IN IF s \notin dirs
          THEN /\ Returns(w, FailedSave(w, s, ErrFileNotFound))
               /\ UNCHANGED meta
          ELSE /\ meta' = [meta EXCEPT ![s] = EmptyFile]
               /\ Goes(w, "save_write_meta")
               /\ UNCHANGED last
    /\ UNCHANGED <<dirs, chunks, outputs, now, nops, saves, stored, fin>>

\* line 63: json.dump and close; lines 67-72: the result
SaveWriteMeta(w) ==
    /\ procs[w].pc = "save_write_meta"
    /\ LET s == procs[w].sid
           i == procs[w].index
           m == procs[w].rec[1]
       IN /\ meta' = [meta EXCEPT ![s] = IF s \in dirs THEN JsonFile(m) ELSE meta[s]]
          /\ saves' = [saves EXCEPT ![s] = Accepted(@, i, procs[w].data, <<>>)]
          /\ Returns(w, Ok("save", s, [index |-> i, data |-> procs[w].data, prev |-> <<>>],
                           [chunk_index |-> i, size |-> Len(procs[w].data),
                            total_chunks |-> m.chunks_received,
                            total_size |-> m.total_size]))
    /\ UNCHANGED <<dirs, chunks, outputs, now, nops, stored, fin>>

\* cleanup, line 127: session_dir.exists()
CallCleanup(w, s) ==
    /\ procs[w].pc = "idle"
    /\ nops < MaxCalls
    /\ nops' = nops + 1
    /\ IF s \notin dirs
       THEN /\ Returns(w, Ok("cleanup", s, [existed |-> FALSE, again |-> FALSE], <<>>))
            /\ UNCHANGED saves
       ELSE /\ procs' = [procs EXCEPT ![w] = [Idle EXCEPT !.pc = "cleanup_rmtree", !.sid = s]]
            /\ saves' = [saves EXCEPT ![s].mixed = @ \/ InFlight(s) # {}]
            /\ UNCHANGED last
    /\ UNCHANGED <<dirs, meta, chunks, outputs, now, stored, fin>>

\* line 128: shutil.rmtree(session_dir), taken as one step
CleanupRmtree(w) ==
    /\ procs[w].pc = "cleanup_rmtree"
    /\ LET s == procs[w].sid
       IN IF s \notin dirs
          THEN /\ Returns(w, Failed("cleanup", s, ErrFileNotFound))
               /\ UNCHANGED <<dirs, meta, chunks, stored, saves, fin>>
          ELSE /\ RemoveDirs({s})
               /\ fin' = [fin EXCEPT ![s] = Untouched]
               /\ Returns(w, Ok("cleanup", s, [existed |-> TRUE, again |-> FALSE], <<>>))
    /\ UNCHANGED <<outputs, now, nops>>

\* combine_chunks, lines 92-95: get_chunks and the test for an empty listing
CallCombine(w, s, o) ==
    /\ procs[w].pc = "idle"
    /\ nops < MaxCalls
    /\ nops' = nops + 1
    /\ IF GetChunks(s) = <<>>
       THEN /\ Returns(w, Failed("combine", s, ErrNoChunks))
            /\ UNCHANGED saves
       ELSE /\ procs' = [procs EXCEPT ![w] =
                   [Idle EXCEPT !.pc = "combine_open_out", !.sid = s, !.out = o,
                                !.names = GetChunks(s), !.count = Len(GetChunks(s))]]
            /\ saves' = [saves EXCEPT ![s].mixed = @ \/ InFlight(s) # {}]
            /\ UNCHANGED last
    /\ UNCHANGED <<dirs, meta, chunks, outputs, now, stored, fin>>

\* line 101: open(output_path, 'wb')
CombineOpenOut(w) ==
    /\ procs[w].pc = "combine_open_out"
    /\ outputs' = [outputs EXCEPT ![procs[w].out] = EmptyFile]
    /\ Goes(w, "combine_copy")
    /\ UNCHANGED <<dirs, meta, chunks, now, last, nops, saves, stored, fin>>

\* lines 102-105: one chunk file is read and written to the output
CombineCopy(w) ==
    /\ procs[w].pc = "combine_copy"
    /\ LET s == procs[w].sid
           n == Head(procs[w].names)
       IN IF s \notin dirs \/ n \notin DOMAIN chunks[s]
          THEN /\ Returns(w, Failed("combine", s, ErrFileNotFound))
               /\ UNCHANGED outputs
          ELSE /\ outputs' = [outputs EXCEPT ![procs[w].out].content = @ \o chunks[s][n]]
               /\ procs' = [procs EXCEPT
                      ![w].names = Tail(@),
                      ![w].total = @ + Len(chunks[s][n]),
                      ![w].pc = IF Tail(procs[w].names) = <<>>
                                THEN "combine_meta_exists" ELSE "combine_copy"]
               /\ UNCHANGED last
    /\ UNCHANGED <<dirs, meta, chunks, now, nops, saves, stored, fin>>

\* get_metadata, line 76: metadata_file.exists()
CombineMetaExists(w) ==
    /\ procs[w].pc = "combine_meta_exists"
    /\ IF ~meta[procs[w].sid].exists
       THEN Returns(w, Failed("combine", procs[w].sid, ErrDoesNotExist))
       ELSE Goes(w, "combine_read_meta") /\ UNCHANGED last
    /\ UNCHANGED <<dirs, meta, chunks, outputs, now, nops, saves, stored, fin>>

\* get_metadata, lines 79-80, and lines 109-111
CombineReadMeta(w) ==
    /\ procs[w].pc = "combine_read_meta"
    /\ LET s == procs[w].sid
           rd == ReadMetadata(meta[s])
       IN IF rd.err = ErrDoesNotExist
          THEN Returns(w, Failed("combine", s, ErrFileNotFound))
          ELSE IF rd.err # ""
          THEN Returns(w, Failed("combine", s, rd.err))
          ELSE /\ procs' = [procs EXCEPT
                      ![w].pc = "combine_open_meta",
                      ![w].rec = <<FinalizedMetadata(rd.rec, procs[w].out, now)>>]
               /\ UNCHANGED last
    /\ UNCHANGED <<dirs, meta, chunks, outputs, now, nops, saves, stored, fin>>

\* line 113: open(metadata_file, 'w')
CombineOpenMeta(w) ==
    /\ procs[w].pc = "combine_open_meta"
    /\ LET s == procs[w].sid
       IN IF s \notin dirs
          THEN /\ Returns(w, Failed("combine", s, ErrFileNotFound))
               /\ UNCHANGED meta
          ELSE /\ meta' = [meta EXCEPT ![s] = EmptyFile]
               /\ Goes(w, "combine_write_meta")
               /\ UNCHANGED last
    /\ UNCHANGED <<dirs, chunks, outputs, now, nops, saves, stored, fin>>

\* line 114: json.dump and close; lines 118-123: the result
CombineWriteMeta(w) ==
    /\ procs[w].pc = "combine_write_meta"
    /\ LET s == procs[w].sid
       IN /\ meta' = [meta EXCEPT ![s] =
                 IF s \in dirs THEN JsonFile(procs[w].rec[1]) ELSE meta[s]]
          /\ fin' = [fin EXCEPT ![s] = Kept]
          /\ Returns(w, Ok("combine", s, procs[w].out,
                           [chunks_combined |-> procs[w].count,
                            total_size |-> procs[w].total,
                            output_file |-> procs[w].out, session_id |-> s]))
    /\ UNCHANGED <<dirs, chunks, outputs, now, nops, saves, stored>>

NextConc ==
    \/ \E w \in Workers, s \in ConcSessions, mime \in MimeTypes : CallInitialize(w, s, mime)
    \/ \E w \in Workers : InitOpen(w)
    \/ \E w \in Workers : InitWrite(w)
    \/ \E w \in Workers, s \in ConcSessions, i \in ConcIndices, data \in Payloads :
          CallSave(w, s, i, data)
    \/ \E w \in Workers : SaveOpenChunk(w)
    \/ \E w \in Workers : SaveWriteChunk(w)
    \/ \E w \in Workers : SaveMetaExists(w)
    \/ \E w \in Workers : SaveReadMeta(w)
    \/ \E w \in Workers : SaveOpenMeta(w)
    \/ \E w \in Workers : SaveWriteMeta(w)
    \/ \E w \in Workers, s \in ConcSessions : CallCleanup(w, s)
    \/ \E w \in Workers : CleanupRmtree(w)
    \/ \E w \in Workers, s \in ConcSessions, o \in OutputTargets : CallCombine(w, s, o)
    \/ \E w \in Workers : CombineOpenOut(w)
    \/ \E w \in Workers : CombineCopy(w)
    \/ \E w \in Workers : CombineMetaExists(w)
    \/ \E w \in Workers : CombineReadMeta(w)
    \/ \E w \in Workers : CombineOpenMeta(w)
    \/ \E w \in Workers : CombineWriteMeta(w)

SpecConc == InitConc /\ [][NextConc]_vars

\* ------------------------------------------------------------ output write faults
\* combine_chunks with the writes to its output able to fail: outfile.write
\* raises OSError (disk full, broken pipe) after part of the bytes went out.
ErrOS == "OSError"
Faults == {"none", "write"}

\* open(output_path, 'ab')
OpenAppending(f) == [exists |-> TRUE, content |-> f.content]

\* open(output_path, 'wb'): the file exists and is empty
OpenTruncated(f) == [exists |-> TRUE, content |-> <<>>]

\* what a write sequence that failed can have left: a proper prefix of bs
Prefixes(bs) == {SubSeq(bs, 1, k) : k \in 0..(Len(bs) - 1)}

\* combine_chunks; the exception of a failed write leaves the with block,
\* which closes the output, and the lines after the loop never run
CombineChunks(s, o, fault) ==
    /\ nops < MaxOps
    /\ nops' = nops + 1
    /\ LET names == GetChunks(s)
           rd == ReadMetadata(meta[s])
           opened == OpenTruncated(outputs[o])
           all == ConcatFiles(names, chunks[s])
           arg == [out |-> o,
                   retried |-> last.op = "combine" /\ last.sid = s /\ last.err = ErrOS]
       IN IF names = <<>>
          THEN /\ last' = Failed("combine", s, ErrNoChunks)
               /\ UNCHANGED <<meta, outputs, fin>>
          ELSE IF fault = "write"
          THEN /\ \E part \in Prefixes(all) :
                     outputs' = [outputs EXCEPT ![o] =
                                    [opened EXCEPT !.content = @ \o part]]
               /\ last' = Failed("combine", s, ErrOS)
               /\ UNCHANGED <<meta, fin>>
          ELSE /\ outputs' = [outputs EXCEPT ![o] =
                                 [opened EXCEPT !.content = @ \o all]]
               /\ IF rd.err # ""
                  THEN /\ last' = Failed("combine", s, rd.err)
                       /\ UNCHANGED <<meta, fin>>
                  ELSE /\ meta' = [meta EXCEPT ![s] =
                               JsonFile(FinalizedMetadata(rd.rec, o, now))]
                       /\ fin' = [fin EXCEPT ![s] = Kept]
                       /\ last' = Ok("combine", s, arg,
                               [chunks_combined |-> Len(names),
                                total_size |-> SumLens(names, chunks[s]),
                                output_file |-> o, session_id |-> s])
    /\ UNCHANGED <<dirs, chunks, now, saves, stored, procs>>

NextFault ==
    \/ \E s \in ConcSessions, mime \in MimeTypes : Initialize(s, mime)
    \/ \E s \in ConcSessions, i \in ConcIndices, data \in Payloads : SaveChunk(s, i, data)
    \/ \E s \in ConcSessions, o \in OutputTargets, fault \in Faults : CombineChunks(s, o, fault)

SpecFault == Init /\ [][NextFault]_vars

\* ------------------------------------------------------------ finalize handler
\* finalize_recording of app.py: combine into a temporary file, transcribe
\* it, clean the session up, and in every case unlink the temporary file.

\* transcribe_audio returns a text or raises
Transcriptions == {"text", "error"}
ErrTranscription == "transcription failed"

\* the answer of the handler: the HTTP status and, on success, the counts
Answer(s, o, e, status, res) ==
    [op |-> "finalize", sid |-> s, arg |-> [out |-> o], err |-> e,
     res |-> [status |-> status] @@ res]

\* os.unlink(tmp_path)
Unlink(f) == NoFile

FinalizeRecording(s, o, outcome) ==
    /\ nops < MaxOps
    /\ nops' = nops + 1
    /\ LET names == GetChunks(s)
           rd == ReadMetadata(meta[s])
           all == [exists |-> TRUE, content |-> ConcatFiles(names, chunks[s])]
           counts == [chunks_combined |-> Len(names),
                      total_size |-> SumLens(names, chunks[s])]
       IN IF names = <<>>
          THEN \* NamedTemporaryFile created the file; combine_chunks raised
               /\ outputs' = [outputs EXCEPT ![o] = Unlink(EmptyFile)]
               /\ last' = Answer(s, o, ErrNoChunks, 404, <<>>)
               /\ UNCHANGED <<dirs, meta, chunks, saves, stored, fin>>
          ELSE IF rd.err # ""
          THEN \* the ValueError of get_metadata or of json.load
               /\ outputs' = [outputs EXCEPT ![o] = Unlink(all)]
               /\ last' = Answer(s, o, rd.err, 404, <<>>)
               /\ UNCHANGED <<dirs, meta, chunks, saves, stored, fin>>
          ELSE IF outcome = "error"
          THEN \* combined and marked finalized; cleanup() is not reached
               /\ outputs' = [outputs EXCEPT ![o] = Unlink(all)]
               /\ meta' = [meta EXCEPT ![s] =
                              JsonFile(FinalizedMetadata(rd.rec, o, now))]
               /\ fin' = [fin EXCEPT ![s] = Kept]
               /\ last' = Answer(s, o, ErrTranscription, 500, <<>>)
               /\ UNCHANGED <<dirs, chunks, saves, stored>>
          ELSE /\ outputs' = [outputs EXCEPT ![o] = Unlink(all)]
               /\ RemoveDirs(CleanupTargets(s))
               /\ fin' = [fin EXCEPT ![s] = Untouched]
               /\ last' = Answer(s, o, "", 200, counts)
    /\ UNCHANGED <<now, procs>>

NextApp ==
    \/ \E s \in ConcSessions, mime \in MimeTypes : Initialize(s, mime)
    \/ \E s \in ConcSessions, i \in ConcIndices, data \in Payloads : SaveChunk(s, i, data)
    \/ \E s \in ConcSessions, o \in OutputTargets, outcome \in Transcriptions :
           FinalizeRecording(s, o, outcome)

SpecApp == Init /\ [][NextApp]_vars

\* ------------------------------------------------------------ session ids as paths
\* ChunkStorage(session_id) with the session id taken as the caller sends
\* it: session_dir is CHUNKS_DIR / session_id.  An id is the sequence of its
\* segments ("./s1" is <<".", "s1">>), a directory is the sequence of the
\* names leading to it from the working directory.  In this specification
\* dirs, meta and chunks are keyed by directory, and stored[d] is the set of
\* session ids whose calls created or wrote files in directory d.
Root == <<"recording_chunks">>
SessionIds == {<<"s1">>, <<"s2">>, <<".">>, <<"..">>, <<".", "s1">>, <<"s1", "s2">>}

RECURSIVE Resolve(_, _)
\* the directory the path segs leads to from directory d: "." stays, ".."
\* goes to the parent
Resolve(d, segs) ==
    IF segs = <<>> THEN d
    ELSE IF Head(segs) = "." THEN Resolve(d, Tail(segs))
    ELSE IF Head(segs) = ".."
         THEN Resolve(IF d = <<>> THEN d ELSE SubSeq(d, 1, Len(d) - 1), Tail(segs))
    ELSE Resolve(Append(d, Head(segs)), Tail(segs))

SessionDir(id) == Resolve(Root, id)
Parent(d) == IF d = <<>> THEN d ELSE SubSeq(d, 1, Len(d) - 1)
AllDirs == {<<>>, Root} \cup {SessionDir(id) : id \in SessionIds}

\* the working directory and CHUNKS_DIR exist when the module is loaded
InitPaths ==
    /\ dirs = {<<>>, Root}
    /\ meta = [d \in AllDirs |-> NoFile]
    /\ chunks = [d \in AllDirs |-> NoFiles]
    /\ stored = [d \in AllDirs |-> {}]
    /\ outputs = <<>>
    /\ now = 0
    /\ last = Ok("start", <<>>, <<>>, <<>>)
    /\ nops = 0
    /\ saves = <<>>
    /\ fin = <<>>
    /\ procs = <<>>

\* initialize_session: mkdir(exist_ok=True) creates no parents
InitializeSession(id, mime) ==
    /\ nops < MaxOps
    /\ nops' = nops + 1
    /\ LET d == SessionDir(id)
       IN IF d \notin dirs /\ Parent(d) \notin dirs
          THEN /\ last' = Failed("initialize", id, ErrFileNotFound)
               /\ UNCHANGED <<dirs, meta, stored>>
          ELSE /\ dirs' = dirs \cup {d}
               /\ meta' = [meta EXCEPT ![d] = JsonFile(NewMetadata(id, mime, now))]
               /\ stored' = [stored EXCEPT ![d] = @ \cup {id}]
               /\ last' = Ok("initialize", id, [dir |-> d], <<>>)
    /\ UNCHANGED <<chunks, outputs, now, saves, fin, procs>>

\* save_chunk
SaveChunkIn(id, i, data) ==
    /\ nops < MaxOps
    /\ nops' = nops + 1
    /\ LET d == SessionDir(id)
           rd == ReadMetadata(meta[d])
           m == SavedMetadata(rd.rec, i, data, now)
       IN IF d \notin dirs
          THEN /\ last' = Failed("save", id, ErrNotInitialized)
               /\ UNCHANGED <<meta, chunks, stored>>
          ELSE /\ chunks' = [chunks EXCEPT ![d] = WriteChunk(chunks[d], i, data)]
               /\ stored' = [stored EXCEPT ![d] = @ \cup {id}]
               /\ IF rd.err # ""
                  THEN /\ last' = Failed("save", id, rd.err)
                       /\ UNCHANGED meta
                  ELSE /\ meta' = [meta EXCEPT ![d] = JsonFile(m)]
                       /\ last' = Ok("save", id, [dir |-> d, index |-> i],
                               [chunk_index |-> i, size |-> Len(data),
                                total_chunks |-> m.chunks_received,
                                total_size |-> m.total_size])
    /\ UNCHANGED <<dirs, outputs, now, saves, fin, procs>>

NextPaths ==
    \/ \E id \in SessionIds, mime \in MimeTypes : InitializeSession(id, mime)
    \/ \E id \in SessionIds, data \in Payloads : SaveChunkIn(id, 0, data)

SpecPaths == InitPaths /\ [][NextPaths]_vars

\* ------------------------------------------------------------ chunk names in a listing
\* save_chunk's file name and get_chunks' sorted listing applied to two chunk
\* indices: the indices around every change of digit count up to the padding
\* width, and the first two past it.
NameIndices ==
    {0, 1, 2, 9, 10, 11, 19, 20, 99, 100, 101, 999, 1000, 9999, 10000,
     99999, 100000, PadCapacity - 2, PadCapacity - 1, PadCapacity, PadCapacity + 1}

InitNames ==
    /\ dirs = {}
    /\ meta = <<>>
    /\ chunks = <<>>
    /\ outputs = <<>>
    /\ now = 0
    /\ last = Ok("start", "", <<>>, <<>>)
    /\ nops = 0
    /\ saves = <<>>
    /\ stored = <<>>
    /\ fin = <<>>
    /\ procs = <<>>

\* the names of chunks i and j and the sorted listing of the two files
ListTwoChunks(i, j) ==
    /\ last' = Ok("list", "", [i |-> i, j |-> j],
                  [names |-> [k \in {i, j} |-> ChunkName(k)],
                   listing |-> SortedNames({ChunkName(i), ChunkName(j)})])
    /\ UNCHANGED <<dirs, meta, chunks, outputs, now, nops, saves, stored, fin, procs>>

NextNames == \E i \in NameIndices, j \in NameIndices : ListTwoChunks(i, j)

SpecNames == InitNames /\ [][NextNames]_vars

\* ------------------------------------------------------------ handlers and their answers
\* upload_chunk, finalize_recording and recording_status of app.py with the
\* HTTP status they answer.  A server process can die inside
\* initialize_session, which leaves the directory without metadata.json or
\* with the empty file that open(..., 'w') created.

\* the exceptions the handlers catch with "except ValueError": the three
\* raised by chunk_storage.py and json.JSONDecodeError, a subclass of it
ValueErrors == {ErrNotInitialized, ErrDoesNotExist, ErrNoChunks, ErrJson}

ErrEmptyChunk == "Empty chunk data"

\* the status of the except clause that catches e
StatusFor(e) == IF e = "" THEN 200 ELSE IF e \in ValueErrors THEN 404 ELSE 500

Reply(op, s, arg, e, status, res) ==
    [op |-> op, sid |-> s, arg |-> arg, err |-> e, res |-> [status |-> status] @@ res]

\* what chunk.read() can return
UploadBodies == Payloads \cup {<<>>}

\* a handler that hands every body on to save_chunk
RejectsNothing(data) == FALSE

\* upload_chunk's test of the body
RejectsBody(data) == Len(data) = 0

\* the process is killed after mkdir (line 29) or after open (line 40)
InitializeInterrupted(s, f) ==
    /\ nops < MaxOps
    /\ nops' = nops + 1
    /\ s \notin dirs
    /\ dirs' = dirs \cup {s}
    /\ meta' = [meta EXCEPT ![s] = f]
    /\ last' = Reply("killed", s, <<>>, "", 0, <<>>)
    /\ UNCHANGED <<chunks, outputs, now, saves, stored, fin, procs>>

UploadChunk(s, i, data) ==
    /\ nops < MaxOps
    /\ nops' = nops + 1
    /\ LET arg == [index |-> i, data |-> data]
           rd == ReadMetadata(meta[s])
           m == SavedMetadata(rd.rec, i, data, now)
       IN IF RejectsBody(data)
          THEN /\ last' = Reply("upload", s, arg, ErrEmptyChunk, 400, <<>>)
               /\ UNCHANGED <<meta, chunks, saves, stored>>
          ELSE IF s \notin dirs
          THEN /\ last' = Reply("upload", s, arg, ErrNotInitialized,
                                StatusFor(ErrNotInitialized), <<>>)
               /\ UNCHANGED <<meta, chunks, saves, stored>>
          ELSE /\ chunks' = [chunks EXCEPT ![s] = WriteChunk(chunks[s], i, data)]
               /\ stored' = [stored EXCEPT ![s] = (i :> data) @@ stored[s]]
               /\ IF rd.err # ""
                  THEN /\ last' = Reply("upload", s, arg, rd.err, StatusFor(rd.err), <<>>)
                       /\ UNCHANGED <<meta, saves>>
                  ELSE /\ meta' = [meta EXCEPT ![s] = JsonFile(m)]
                       /\ saves' = [saves EXCEPT ![s] =
                              Accepted(@, i, data,
                                  IF i \in DOMAIN stored[s] THEN <<stored[s][i]>> ELSE <<>>)]
                       /\ last' = Reply("upload", s, arg, "", StatusFor(""),
                               [chunk_index |-> i, size |-> Len(data),
                                total_chunks |-> m.chunks_received,
                                total_size |-> m.total_size])
    /\ UNCHANGED <<dirs, outputs, now, fin, procs>>

RecordingStatus(s) ==
    /\ nops < MaxOps
    /\ nops' = nops + 1
    /\ LET st == StatusOf(s)
       IN last' = Reply("status", s, <<>>, st.err, StatusFor(st.err), st.res)
    /\ UNCHANGED <<dirs, meta, chunks, outputs, now, saves, stored, fin, procs>>

NextHttp ==
    \/ \E s \in ConcSessions, mime \in MimeTypes : Initialize(s, mime)
    \/ \E s \in ConcSessions, f \in {NoFile, EmptyFile} : InitializeInterrupted(s, f)
    \/ \E s \in ConcSessions, i \in ConcIndices, data \in UploadBodies : UploadChunk(s, i, data)
    \/ \E s \in ConcSessions : RecordingStatus(s)
    \/ \E s \in ConcSessions, o \in OutputTargets, outcome \in Transcriptions :
           FinalizeRecording(s, o, outcome)

SpecHttp == Init /\ [][NextHttp]_vars

\* ------------------------------------------------------------ one event loop
\* The handlers are coroutines of one uvicorn process: the loop runs a
\* handler until it awaits or returns.  upload_chunk awaits chunk.read()
\* once, before save_chunk; initialize_recording and finalize_recording
\* await nothing.  procs[t] is the request task t.
Tasks == {"t1", "t2"}

\* seen: the metadata as it was when the request arrived
IdleTask == [pc |-> "idle", sid |-> "", index |-> 0, seen |-> <<>>]

InitLoop ==
    /\ dirs = {}
    /\ meta = [s \in Sessions |-> NoFile]
    /\ chunks = [s \in Sessions |-> NoFiles]
    /\ outputs = [o \in OutputTargets |-> NoFile]
    /\ now = 0
    /\ last = Ok("start", "", <<>>, <<>>)
    /\ nops = 0
    /\ saves = [s \in Sessions |-> NoSaves]
    /\ stored = [s \in Sessions |-> NoFiles]
    /\ fin = [s \in Sessions |-> Untouched]
    /\ procs = [t \in Tasks |-> IdleTask]

\* a save_chunk that works on the record of the time the request arrived
RecordAtRequest(t) == procs[t].seen

\* the record save_chunk reads: get_metadata runs after the await
RecordAtSave(t) == ReadMetadata(meta[procs[t].sid])

\* upload_chunk up to "await chunk.read()"
BeginUpload(t, s, i) ==
    /\ nops < MaxOps
    /\ nops' = nops + 1
    /\ procs[t].pc = "idle"
    /\ procs' = [procs EXCEPT ![t] =
                    [pc |-> "await_read", sid |-> s, index |-> i,
                     seen |-> ReadMetadata(meta[s])]]
    /\ last' = Reply("begin", s, [task |-> t, index |-> i], "", 0, <<>>)
    /\ UNCHANGED <<dirs, meta, chunks, outputs, now, saves, stored, fin>>

\* the body has arrived: the rest of upload_chunk, save_chunk included, runs
\* without another await
ResumeUpload(t, data) ==
    /\ procs[t].pc = "await_read"
    /\ procs' = [procs EXCEPT ![t] = IdleTask]
    /\ LET s == procs[t].sid
           i == procs[t].index
           arg == [task |-> t, index |-> i, data |-> data]
           rd == RecordAtSave(t)
           m == SavedMetadata(rd.rec, i, data, now)
       IN IF RejectsBody(data)
          THEN /\ last' = Reply("upload", s, arg, ErrEmptyChunk, 400, <<>>)
               /\ UNCHANGED <<meta, chunks, saves, stored>>
          ELSE IF s \notin dirs
          THEN /\ last' = Reply("upload", s, arg, ErrNotInitialized,
                                StatusFor(ErrNotInitialized), <<>>)
               /\ UNCHANGED <<meta, chunks, saves, stored>>
          ELSE /\ chunks' = [chunks EXCEPT ![s] = WriteChunk(chunks[s], i, data)]
               /\ stored' = [stored EXCEPT ![s] = (i :> data) @@ stored[s]]
               /\ IF rd.err # ""
                  THEN /\ last' = Reply("upload", s, arg, rd.err, StatusFor(rd.err), <<>>)
                       /\ UNCHANGED <<meta, saves>>
                  ELSE /\ meta' = [meta EXCEPT ![s] = JsonFile(m)]
                       /\ saves' = [saves EXCEPT ![s] =
                              Accepted(@, i, data,
                                  IF i \in DOMAIN stored[s] THEN <<stored[s][i]>> ELSE <<>>)]
                       /\ last' = Reply("upload", s, arg, "", StatusFor(""),
                               [chunk_index |-> i, size |-> Len(data),
                                total_chunks |-> m.chunks_received,
                                total_size |-> m.total_size])
    /\ UNCHANGED <<dirs, outputs, now, nops, fin>>

NextLoop ==
    \/ \E s \in ConcSessions, mime \in MimeTypes : Initialize(s, mime)
    \/ \E t \in Tasks, s \in ConcSessions, i \in ConcIndices : BeginUpload(t, s, i)
    \/ \E t \in Tasks, data \in UploadBodies : ResumeUpload(t, data)
    \/ \E s \in ConcSessions, o \in OutputTargets, outcome \in Transcriptions :
           FinalizeRecording(s, o, outcome)

SpecLoop == InitLoop /\ [][NextLoop]_vars

\* ------------------------------------------------------------ the reclaimer over time
\* Requests arrive for a while (at most MaxOps of them) and then stop; the
\* clock keeps advancing up to MaxTime and cleanup_old_sessions is called
\* again and again, with the smallest threshold.  A session is initialized
\* only while the clock can still advance past its created_at.
ReclaimAge == CHOOSE a \in MaxAges : \A b \in MaxAges : a <= b

InitializeEarly(s, mime) == now < MaxTime /\ Initialize(s, mime)

InitializeKilled(s, f) == now < MaxTime /\ InitializeInterrupted(s, f)

\* CHUNKS_DIR.iterdir() lists the directories in an order the file system
\* picks; procs holds that order
ListingOrders == {<<"s1", "s2">>, <<"s2", "s1">>}

InitReclaim ==
    /\ dirs = {}
    /\ meta = [s \in Sessions |-> NoFile]
    /\ chunks = [s \in Sessions |-> NoFiles]
    /\ outputs = [o \in OutputTargets |-> NoFile]
    /\ now = 0
    /\ last = Ok("start", "", <<>>, <<>>)
    /\ nops = 0
    /\ saves = [s \in Sessions |-> NoSaves]
    /\ stored = [s \in Sessions |-> NoFiles]
    /\ fin = [s \in Sessions |-> Untouched]
    /\ procs \in ListingOrders

RECURSIVE Sweep(_, _, _)
\* the loop of cleanup_old_sessions over the listing order: the sessions it
\* removes and the exception that ended it
Sweep(order, t, maxAge) ==
    IF order = <<>> THEN [removed |-> {}, err |-> ""]
    ELSE LET s == Head(order)
         IN IF s \notin dirs \/ ~meta[s].exists
            THEN Sweep(Tail(order), t, maxAge)
            ELSE IF meta[s].content = <<>>
            THEN [removed |-> {}, err |-> ErrJson]
            ELSE LET rest == Sweep(Tail(order), t, maxAge)
                 IN [removed |-> rest.removed \cup
                                    (IF IsStale(meta[s].content[1], t, maxAge)
                                     THEN {s} ELSE {}),
                     err |-> rest.err]

\* cleanup_old_sessions, called by a periodic job
ReclaimAgain(maxAge) ==
    /\ LET sw == Sweep(procs, now, maxAge)
       IN /\ RemoveDirs(sw.removed)
          /\ last' = IF sw.err = ""
                     THEN Ok("reclaim", "", [max_age_hours |-> maxAge],
                             [cleaned |-> Cardinality(sw.removed)])
                     ELSE Failed("reclaim", "", sw.err)
    /\ UNCHANGED <<outputs, now, nops, fin, procs>>

NextReclaim ==
    \/ \E s \in Sessions, mime \in MimeTypes : InitializeEarly(s, mime)
    \/ \E s \in Sessions, f \in {NoFile, EmptyFile} : InitializeKilled(s, f)
    \/ \E s \in Sessions, data \in Payloads : SaveChunk(s, 0, data)
    \/ \E s \in Sessions, o \in OutputTargets, outcome \in Transcriptions :
           FinalizeRecording(s, o, outcome)
    \/ ReclaimAgain(ReclaimAge)
    \/ Tick

\* the clock advances while it can, and a call of the job that has something
\* to remove is eventually made
SpecReclaim ==
    /\ InitReclaim
    /\ [][NextReclaim]_vars
    /\ WF_now(Tick)
    /\ WF_dirs(ReclaimAgain(ReclaimAge))

\* ------------------------------------------------------------ properties
Readable(s) == meta[s].exists /\ meta[s].content # <<>>
Meta(s) == meta[s].content[1]

SetMax(S) == CHOOSE x \in S : \A y \in S : y <= x
SetMin(S) == CHOOSE x \in S : \A y \in S : x <= y

RECURSIVE AscendingConcat(_)
\* the payloads of f (index -> payload) in ascending numeric index order
AscendingConcat(f) ==
    IF DOMAIN f = {} THEN <<>>
    ELSE LET i == SetMin(DOMAIN f)
         IN f[i] \o AscendingConcat([j \in DOMAIN f \ {i} |-> f[j]])

\* a successful combine has just returned
Combined == last.op = "combine" /\ last.err = ""

\* what C2 says of a combine that has just returned
CombineIsAscending ==
    LET f == stored[last.sid]
    IN /\ outputs[last.arg].content = AscendingConcat(f)
       /\ last.res.chunks_combined = Cardinality(DOMAIN f)
       /\ last.res.total_size = Len(outputs[last.arg].content)

\* C1: after save_chunk calls with pairwise distinct indices, run one after
\* another in any order, chunks_received is the largest index plus one and
\* total_size is the sum of the payload sizes.
C1_ChunksReceivedIsMaxPlusOne ==
    \A s \in dirs :
        (saves[s].idxs # {} /\ ~saves[s].dup) =>
            /\ Meta(s).chunks_received = SetMax(saves[s].idxs) + 1
            /\ Meta(s).total_size = saves[s].sum

\* C2 as stated: for chunks at any set of indices, combine writes the payloads
\* in ascending numeric index order, counts them and returns the output's length.
C2_CombineAscendingAnyIndex == Combined => CombineIsAscending

\* C2 as amended: the same for chunks whose indices all fit the six digits of
\* the padding (0..999999).
C2_CombineAscendingWithinPadding ==
    (Combined /\ \A i \in DOMAIN stored[last.sid] : i < PadCapacity) => CombineIsAscending

\* two chunks within the padding, with different payloads, have been combined
C2_Witness ==
    /\ Combined
    /\ DOMAIN stored[last.sid] = {0, PadCapacity - 1}
    /\ stored[last.sid][0] # stored[last.sid][PadCapacity - 1]

\* C3: once overlapping save_chunk calls for disjoint indices have all
\* returned successfully, total_size is the sum of their payload sizes.
C3_NoContributionLost ==
    \A s \in dirs :
        (InFlight(s) = {} /\ Readable(s) /\ ~saves[s].mixed /\ ~saves[s].dup) =>
            Meta(s).total_size = saves[s].sum

\* C4 as stated: after a successful combine the session directory is removed
\* by nothing but cleanup.
C4_OnlyCleanupRemovesCombined == \A s \in Sessions : fin[s] # Untouched => s \in dirs

\* C4 as amended: after a successful combine, and as long as the session is
\* neither cleaned up nor initialized again, finalized stays true and no
\* cleanup_old_sessions call removes the directory.
C4_ReclaimSparesFinalized ==
    \A s \in Sessions : fin[s] = Kept => (s \in dirs /\ Readable(s) /\ Meta(s).finalized)

\* a reclaim with threshold 0 has run over a combined session older than that
C4_Witness ==
    /\ last.op = "reclaim"
    /\ last.arg = 0
    /\ \E s \in dirs : fin[s] = Kept /\ now - Meta(s).created_at > 0

\* C5: cleanup_old_sessions(maxAge) removes exactly the sessions that are older
\* than maxAge and not finalized, with their metadata and chunk files, leaves
\* every other session as it was, and returns the number it removed.
C5_ReclaimRemovesExactlyStale ==
    [][(last'.op = "reclaim" /\ nops' # nops) =>
          LET D == {s \in dirs : /\ now - Meta(s).created_at > last'.arg
                                 /\ Meta(s).finalized = FALSE}
          IN /\ last'.err = ""
             /\ dirs' = dirs \ D
             /\ \A s \in D : meta'[s] = NoFile /\ chunks'[s] = NoFiles
             /\ \A s \in Sessions \ D : meta'[s] = meta[s] /\ chunks'[s] = chunks[s]
             /\ last'.res.cleaned = Cardinality(D)]_vars

\* a reclaim has removed one session and left another
C5_Witness == last.op = "reclaim" /\ last.res.cleaned = 1 /\ dirs # {}

\* C6: a chunk index written again holds the payload written last, in one
\* file, and a combine emits that payload where the index's file is listed.
C6_LastWriteWins ==
    /\ \A s \in dirs :
          /\ \A i \in DOMAIN stored[s] :
                /\ ChunkName(i) \in DOMAIN chunks[s]
                /\ chunks[s][ChunkName(i)] = stored[s][i]
          /\ Cardinality(DOMAIN chunks[s]) = Cardinality(DOMAIN stored[s])
    /\ Combined =>
          LET f == stored[last.sid]
              byName == [n \in {ChunkName(i) : i \in DOMAIN f} |->
                            f[CHOOSE i \in DOMAIN f : ChunkName(i) = n]]
          IN outputs[last.arg].content = ConcatFiles(SortedNames(DOMAIN byName), byName)

\* a combine has run over a chunk whose payload had been replaced
C6_Witness == Combined /\ saves[last.sid].replaced # {}

\* C7: right after initialize, recording_status answers chunks_received 0,
\* total_size 0 and finalized false, whether or not the session existed.
C7_StatusAfterInitialize ==
    last.op = "initialize" =>
        /\ StatusOf(last.sid).err = ""
        /\ StatusOf(last.sid).res.chunks_received = 0
        /\ StatusOf(last.sid).res.total_size = 0
        /\ StatusOf(last.sid).res.finalized = FALSE

\* a session that held chunks has been initialized again
C7_Witness ==
    last.op = "initialize" /\ last.arg.existed /\ DOMAIN chunks[last.sid] # {}

\* C8: combine on an initialized session without chunk files fails with
\* "No chunks found" and leaves the metadata and the output as they were.
C8_CombineWithoutChunksFails ==
    [][(last'.op = "combine" /\ nops' # nops
            /\ last'.sid \in dirs /\ DOMAIN chunks[last'.sid] = {}) =>
          /\ last'.err = ErrNoChunks
          /\ meta' = meta
          /\ outputs' = outputs
          /\ Meta(last'.sid).finalized = FALSE
          /\ Meta(last'.sid).output_file = <<>>]_vars

\* a combine has failed on an initialized session
C8_Witness == last.op = "combine" /\ last.err = ErrNoChunks /\ last.sid \in dirs

\* C9: combine on a session without a directory fails with the error that
\* save_chunk or get_metadata raise for an unknown session.
C9_CombineUnknownSessionNotFound ==
    (last.op = "combine" /\ last.sid \notin dirs) =>
        last.err \in {ErrNotInitialized, ErrDoesNotExist}

\* C10: cleanup removes the session's directory, metadata and chunk files
\* whatever its state, leaves the other sessions alone, never fails, and
\* changes nothing when the session does not exist.
C10_CleanupRemovesAndIsIdempotent ==
    [][(last'.op = "cleanup" /\ nops' # nops) =>
          LET s == last'.sid
          IN /\ last'.err = ""
             /\ dirs' = dirs \ {s}
             /\ meta'[s] = NoFile /\ chunks'[s] = NoFiles
             /\ \A r \in Sessions \ {s} : meta'[r] = meta[r] /\ chunks'[r] = chunks[r]
             /\ s \notin dirs => (dirs' = dirs /\ meta' = meta /\ chunks' = chunks)]_vars

\* cleanup has run on a session that the cleanup before it had removed
C10_Witness == last.op = "cleanup" /\ last.arg.again /\ ~last.arg.existed

\* C12: a save_chunk call that fails because the session is not there has
\* created no chunk file, also when it overlaps an initialize or a cleanup.
C12_FailedSaveHasNoEffect ==
    (last.op = "save" /\ last.err \in {ErrNotInitialized, ErrDoesNotExist}) =>
        ~last.arg.wrote

\* C13: no combine or cleanup acts on a session while a save_chunk or a
\* combine of another worker is between its first and last file-system step
\* on the same session.
C13_MutualExclusion ==
    \A v, w \in Workers :
        (v # w /\ procs[v].sid = procs[w].sid) =>
            ~(/\ procs[v].pc \in SavePcs \cup CombinePcs
              /\ procs[w].pc \in CombinePcs \cup {"cleanup_rmtree"})

\* C17: once a successful combine and every call that overlapped it have
\* returned, the metadata has finalized true with finalized_at and
\* output_file set.
C17_CombineLeavesFinalized ==
    \A s \in dirs :
        (fin[s] = Kept /\ InFlight(s) = {}) =>
            /\ Readable(s)
            /\ Meta(s).finalized
            /\ Meta(s).finalized_at # <<>>
            /\ Meta(s).output_file # <<>>

\* C19: in every state, also between the steps of a call, a session's
\* directory exists exactly when its metadata.json holds a complete record.
C19_DirectoryIffInitialized == \A s \in Sessions : s \in dirs <=> Readable(s)

\* C15 (as stated): over initialize, save_chunk, combine_chunks, the status
\* read and cleanup_old_sessions, a session whose metadata has finalized true
\* still has finalized true after the step, as long as it still exists.
C15_FinalizedMonotone ==
    [][\A s \in Sessions :
          (/\ last'.op \in {"initialize", "save", "combine", "status", "reclaim"}
           /\ Readable(s) /\ Meta(s).finalized /\ s \in dirs') =>
              (meta'[s].content # <<>> /\ meta'[s].content[1].finalized)]_vars

\* C15 (amended): the same over save_chunk, combine_chunks, the status read
\* and cleanup_old_sessions run one after another; initialize_session writes
\* a fresh record with finalized false.
C15_FinalizedKeptUntilInitialize ==
    [][\A s \in Sessions :
          /\ (/\ last'.op \in {"save", "combine", "status", "reclaim"}
              /\ Readable(s) /\ Meta(s).finalized /\ s \in dirs') =>
                 (meta'[s].content # <<>> /\ meta'[s].content[1].finalized)
          /\ (last'.op = "initialize" /\ last'.sid = s /\ nops' # nops) =>
                 (meta'[s].content # <<>> /\ ~meta'[s].content[1].finalized)]_vars

\* a save_chunk was accepted on a combined session and the flag is still set
C15_Witness ==
    /\ last.op = "save" /\ last.err = ""
    /\ fin[last.sid] = Kept
    /\ Meta(last.sid).finalized

\* C18 (as stated): while a session has a metadata record, no step changes
\* its created_at.
C18_CreatedAtImmutable ==
    [][\A s \in Sessions :
          (Readable(s) /\ meta'[s].content # <<>>) =>
              meta'[s].content[1].created_at = Meta(s).created_at]_vars

\* C18 (amended): every initialize_session, also on an existing session,
\* sets created_at to the current time; no other operation changes it while
\* the session has a record.
C18_CreatedAtSetByEachInitialize ==
    [][\A s \in Sessions :
          IF last'.op = "initialize" /\ last'.sid = s /\ nops' # nops
          THEN meta'[s].content # <<>> /\ meta'[s].content[1].created_at = now
          ELSE (Readable(s) /\ meta'[s].content # <<>>) =>
                   meta'[s].content[1].created_at = Meta(s).created_at]_vars

\* an existing session with chunks was initialized again at a later hour
C18_Witness ==
    /\ last.op = "initialize" /\ last.arg.existed
    /\ now > 0 /\ Meta(last.sid).created_at = now
    /\ chunks[last.sid] # NoFiles

\* C20: while a session's directory exists no chunk file of it disappears;
\* an accepted save_chunk sets the file of its own index and leaves every
\* other file as it was; every other step that keeps the directory,
\* initialize_session on an existing session included, leaves all chunk files
\* and their content unchanged; a directory goes only in a cleanup or a
\* cleanup_old_sessions step.
C20_ChunkFilesOnlyAddedOrOverwritten ==
    [][\A s \in Sessions :
          /\ (s \in dirs /\ s \in dirs') =>
                /\ DOMAIN chunks[s] \subseteq DOMAIN chunks'[s]
                /\ IF last'.op = "save" /\ last'.sid = s /\ last'.err = "" /\ nops' # nops
                   THEN LET n == ChunkName(last'.arg.index)
                        IN /\ DOMAIN chunks'[s] = DOMAIN chunks[s] \cup {n}
                           /\ chunks'[s][n] = last'.arg.data
                           /\ \A k \in DOMAIN chunks[s] \ {n} : chunks'[s][k] = chunks[s][k]
                   ELSE chunks'[s] = chunks[s]
          /\ (s \in dirs /\ s \notin dirs') => last'.op \in {"cleanup", "reclaim"}]_vars

\* a session holding two chunk files was initialized again and a later
\* combine wrote both
C20_Witness ==
    /\ Combined
    /\ fin[last.sid] = Kept
    /\ saves[last.sid].idxs = {}
    /\ last.res.chunks_combined = 2

\* C16: a combine_chunks whose output write fails reports the failure and
\* leaves every chunk file and the metadata as they were; the combine called
\* next on the same session, when its writes succeed, succeeds, and its
\* output, result and metadata are those of a combine of the same chunk files
\* that no failure preceded.
C16_WriteFaultKeepsSessionAndRetrySucceeds ==
    [][(last'.op = "combine" /\ nops' # nops) =>
          LET s == last'.sid
              names == GetChunks(s)
              all == ConcatFiles(names, chunks[s])
          IN /\ last'.err = ErrOS =>
                   chunks' = chunks /\ meta' = meta /\ dirs' = dirs
             /\ (last.op = "combine" /\ last.sid = s /\ last.err = ErrOS
                    /\ last'.err # ErrOS) =>
                   /\ last'.err = ""
                   /\ chunks' = chunks
                   /\ outputs'[last'.arg.out] = [exists |-> TRUE, content |-> all]
                   /\ last'.res = [chunks_combined |-> Len(names),
                                   total_size |-> Len(all),
                                   output_file |-> last'.arg.out,
                                   session_id |-> s]
                   /\ meta'[s] = JsonFile(FinalizedMetadata(Meta(s), last'.arg.out, now))]_vars

\* a combine of two chunk files succeeded right after one whose write failed
C16_Witness ==
    /\ last.op = "combine" /\ last.err = ""
    /\ last.arg.retried
    /\ last.res.chunks_combined = 2

\* C11: when finalize_recording has combined a session's chunks and the
\* transcription has failed, the combined output file and the session
\* directory with its chunk files exist after the handler has returned.
C11_FailedTranscriptionKeepsOutputAndSession ==
    (last.op = "finalize" /\ last.err = ErrTranscription) =>
        /\ outputs[last.arg.out].exists
        /\ last.sid \in dirs
        /\ chunks[last.sid] # NoFiles

\* a session id that is one plain path segment
ValidId(id) == Len(id) = 1 /\ id[1] \notin {".", ".."}

\* C14: every file or directory a call creates or writes lies in the
\* directory CHUNKS_DIR/<id> of the id the call was made with, and that id is
\* one plain segment; so a call with ".", ".." or an id with a separator
\* writes nothing, and no directory is written under two ids.
C14_SessionIdConfinesFiles ==
    \A d \in AllDirs : \A id \in stored[d] : ValidId(id) /\ d = Root \o id

\* C23: for chunk indices i < j that both fit the six-digit padding, the file
\* name of i is smaller than the file name of j as strings, and the sorted
\* listing of the two files has the file of i first.
C23_NameOrderIsIndexOrder ==
    (last.op = "list" /\ last.arg.i < last.arg.j /\ last.arg.j <= PadCapacity - 1) =>
        /\ LexLess(last.res.names[last.arg.i], last.res.names[last.arg.j])
        /\ last.res.listing = <<last.res.names[last.arg.i], last.res.names[last.arg.j]>>

\* the listing of the files of 99999 and 999999, whose indices differ in
\* digit count, was taken
C23_Witness ==
    /\ last.op = "list"
    /\ last.arg.i = 99999 /\ last.arg.j = PadCapacity - 1
    /\ Len(last.res.listing) = 2

\* C21: the chunk files of a session are exactly the files named after the
\* indices written since its directory was created, each holding the payload
\* last written for its index, whatever the order of the writes and however
\* often an index was written; two write sequences over the same set of
\* indices therefore leave the same set of chunk files.
C21_FilesAreImageOfIndexSet ==
    \A s \in Sessions :
        /\ DOMAIN chunks[s] = {ChunkName(i) : i \in DOMAIN stored[s]}
        /\ Cardinality(DOMAIN chunks[s]) = Cardinality(DOMAIN stored[s])
        /\ \A i \in DOMAIN stored[s] : chunks[s][ChunkName(i)] = stored[s][i]

\* an index was written again after another index had been written
C21_Witness ==
    /\ last.op = "save" /\ last.err = ""
    /\ last.arg.prev # <<>>
    /\ Cardinality(DOMAIN chunks[last.sid]) = 2

\* C22: an accepted save_chunk run on its own sets chunks_received to
\* index + 1, adds the payload length to total_size, also for an index
\* written before, and keeps finalized, created_at and mime_type; it returns
\* the payload length and the two counters it wrote, and the status read
\* that follows it reports the same two counters.
C22_SaveUpdatesAndReportsCounters ==
    [][/\ (last'.op = "save" /\ last'.err = "" /\ nops' # nops) =>
              LET s == last'.sid
                  i == last'.arg.index
                  data == last'.arg.data
                  m == meta'[s].content[1]
              IN /\ m.chunks_received = i + 1
                 /\ m.total_size = Meta(s).total_size + Len(data)
                 /\ m.finalized = Meta(s).finalized
                 /\ m.created_at = Meta(s).created_at
                 /\ m.mime_type = Meta(s).mime_type
                 /\ last'.res.size = Len(data)
                 /\ last'.res.total_chunks = m.chunks_received
                 /\ last'.res.total_size = m.total_size
       /\ (/\ last.op = "save" /\ last.err = ""
           /\ last'.op = "status" /\ last'.sid = last.sid /\ nops' # nops) =>
              /\ last'.err = ""
              /\ last'.res.chunks_received = last.res.total_chunks
              /\ last'.res.total_size = last.res.total_size]_vars

\* a save_chunk of an index written before was accepted after other bytes
\* had been counted
C22_Witness ==
    /\ last.op = "save" /\ last.err = ""
    /\ last.arg.prev # <<>>
    /\ last.res.total_size > last.res.size
    /\ last.res.total_chunks = last.arg.index + 1

\* C24: upload_chunk, finalize_recording and recording_status answer 404
\* exactly for a session that is not there and for a session without chunks;
\* every other failure, an unreadable metadata.json included, is answered
\* with 500.
C24_NotFoundOnlyForMissingSessionOrChunks ==
    (last.op \in {"upload", "finalize", "status"} /\ last.err # "") =>
        /\ last.res.status = 404 <=>
               last.err \in {ErrNotInitialized, ErrDoesNotExist, ErrNoChunks}
        /\ last.err \notin {ErrNotInitialized, ErrDoesNotExist, ErrNoChunks, ErrEmptyChunk} =>
               last.res.status = 500

\* C26: an upload_chunk request with an empty body is answered with 400,
\* whether or not the session exists, and changes no chunk file and no
\* metadata.
C26_EmptyUploadRejectedUnchanged ==
    [][(last'.op = "upload" /\ last'.arg.data = <<>> /\ nops' # nops) =>
          /\ last'.res.status = 400
          /\ last'.err = ErrEmptyChunk
          /\ chunks' = chunks /\ meta' = meta /\ dirs' = dirs]_vars

\* an empty body was rejected for a session that holds a chunk
C26_Witness ==
    /\ last.op = "upload" /\ last.res.status = 400
    /\ last.sid \in dirs
    /\ chunks[last.sid] # NoFiles
    /\ Readable(last.sid) /\ Meta(last.sid).total_size > 0

\* C27: with the requests of one event loop, whatever the order in which the
\* uploads in flight receive their bodies, no request is suspended inside a
\* storage operation, total_size is the sum of the accepted payload sizes,
\* every chunk file holds the payload last accepted for its index, and the
\* finalized flag a finalize request wrote is still set while the session
\* is kept.
C27_HandlersAtomicInOneLoop ==
    /\ \A t \in Tasks : procs[t].pc \in {"idle", "await_read"}
    /\ \A s \in dirs :
          /\ Readable(s)
          /\ Meta(s).total_size = saves[s].sum
          /\ \A i \in DOMAIN stored[s] : chunks[s][ChunkName(i)] = stored[s][i]
          /\ fin[s] = Kept => Meta(s).finalized

\* an upload was accepted for a second index, after bytes of another
\* upload had been counted, while a further upload waits for its body
C27_Witness ==
    /\ last.op = "upload" /\ last.err = ""
    /\ procs[last.arg.task].pc = "idle"
    /\ last.res.total_size > last.res.size
    /\ Cardinality(saves[last.sid].idxs) = 2
    /\ \E u \in Tasks \ {last.arg.task} : procs[u].pc = "await_read"

\* a session with a complete record that is not finalized, once no further
\* request arrives
Abandoned(s) ==
    /\ nops = MaxOps
    /\ s \in dirs /\ Readable(s)
    /\ ~Meta(s).finalized

\* C25: with the clock advancing and cleanup_old_sessions called again and
\* again, every session that was initialized, is not finalized and receives
\* no further request is eventually removed with its chunk files.
C25_AbandonedEventuallyReclaimed ==
    \A s \in Sessions :
        Abandoned(s) ~> (s \notin dirs /\ chunks[s] = NoFiles /\ meta[s] = NoFile)

====
